---- MODULE Spec2Model ----
(***************************************************************************)
(* Model of the BLIP tagging tool: main.py, src/tagger.py (AITagger), the  *)
(* image and video processors and the captioner.                            *)
(*                                                                         *)
(* The input tree is a set of paths (tuples of path components); the       *)
(* ledger is the output CSV, kept as the sequence of its csv records, each *)
(* record the tuple of its cells in the order csv.writer wrote them.       *)
(***************************************************************************)
EXTENDS Integers, Sequences, FiniteSets, TLC

VARIABLES
    tree,              \* the paths that exist under the input root
    video,             \* what in/c.mp4 holds once it exists (a VideoContents record)
    ledger,            \* the output file: [exists, rows]
    pc,                \* "idle" (no run) or "loop" (inside AITagger.process's for loop)
    cfg,               \* the arguments of the run: skip_existing, continuous_save, ...
    existing_files,    \* process: the resume set read at startup
    files_to_process,  \* process: the files the loop iterates over
    idx,               \* process: position of the loop in files_to_process
    results,           \* process: the rows buffered when continuous_save is off
    runs,              \* how many runs were started
    outcome,           \* how the last run ended, "running" while in the loop
    ledger0,           \* the ledger as it was when the last run was started
    started,           \* the ledger after the startup part of the last run
    discovered,        \* what _get_files returned in the last run
    log,               \* per processed file of the last run: what the processor did
    prev,              \* mode and outcome of the run before the last one
    formats,           \* the output formats of all runs so far
    probe              \* a call of one function on its own: its inputs and result

vars == <<tree, video, ledger, pc, cfg, existing_files, files_to_process, idx,
          results, runs, outcome, ledger0, started, discovered, log, prev, formats,
          probe>>

----------------------------------------------------------------------------
(* Bounds of the model *)

MaxRuns == 2

----------------------------------------------------------------------------
(* Strings: Python compares str by code point, so upper case sorts first.  *)

\* every path component of the model, in Python's str order
StrOrder == <<"B.PNG", "a.jpg", "c.mp4", "empty", "in", "missing", "notes.txt",
              "pics.png", "sub">>

StrRank(s) == CHOOSE i \in 1..Len(StrOrder) : StrOrder[i] = s

StrLess(a, b) == StrRank(a) < StrRank(b)

\* pathlib: PurePath.suffix, the last dot-separated part of the final component
Suffix(name) ==
    CASE name = "B.PNG"     -> ".PNG"
      [] name = "a.jpg"     -> ".jpg"
      [] name = "c.mp4"     -> ".mp4"
      [] name = "notes.txt" -> ".txt"
      [] name = "pics.png"  -> ".png"
      [] OTHER              -> ""

\* str.lower on the suffixes of the model
Lower(s) == IF s = ".PNG" THEN ".png" ELSE s

SUPPORTED_IMAGES == {".jpg", ".jpeg", ".png", ".bmp", ".tiff", ".webp"}

SUPPORTED_VIDEOS == {".mp4", ".avi", ".mov", ".mkv", ".gif", ".webm"}

----------------------------------------------------------------------------
(* The input tree.  A path is the tuple of its components (pathlib's parts). *)

DirNodes == {<<"in">>, <<"in", "sub">>, <<"in", "pics.png">>, <<"in", "empty">>}

FileNodes == {<<"in", "a.jpg">>, <<"in", "B.PNG">>, <<"in", "notes.txt">>,
              <<"in", "sub", "a.jpg">>, <<"in", "c.mp4">>}

VideoNode == <<"in", "c.mp4">>

\* the tree before the video is copied into it
BaseTree == (DirNodes \cup FileNodes) \ {VideoNode}

\* the input_path arguments tried: the root, a subdirectory, a supported file,
\* an unsupported file and a path that does not exist
InputPaths == {<<"in">>, <<"in", "sub">>, <<"in", "a.jpg">>, <<"in", "notes.txt">>,
               <<"in", "missing">>}

\* two orders in which the operating system may list the tree to rglob
WalkOrders == {
    << <<"in", "sub">>, <<"in", "sub", "a.jpg">>, <<"in", "notes.txt">>,
       <<"in", "c.mp4">>, <<"in", "a.jpg">>, <<"in", "pics.png">>,
       <<"in", "B.PNG">>, <<"in", "empty">> >>,
    << <<"in", "B.PNG">>, <<"in", "empty">>, <<"in", "c.mp4">>,
       <<"in", "pics.png">>, <<"in", "a.jpg">>, <<"in", "notes.txt">>,
       <<"in", "sub">>, <<"in", "sub", "a.jpg">> >> }

\* what a video file may hold: whether cv2 opens it, the frame count it
\* reports and the frame positions at which video.read() succeeds
VideoContents == {
    [opened |-> FALSE, total_frames |-> 0,  readable |-> {}],
    [opened |-> TRUE,  total_frames |-> 0,  readable |-> {}],
    [opened |-> TRUE,  total_frames |-> 2,  readable |-> {0, 1}],
    [opened |-> TRUE,  total_frames |-> 12, readable |-> {}],
    [opened |-> TRUE,  total_frames |-> 12, readable |-> {2, 3, 4, 8}] }

NoVideo == [opened |-> FALSE, total_frames |-> 0, readable |-> {}]

\* PIL cannot open in/B.PNG
Corrupt(p) == p = <<"in", "B.PNG">>

\* st_size in bytes
StSize(p) == IF p = <<"in", "a.jpg">> THEN 2048 ELSE IF p = VideoNode THEN 5000 ELSE 100

\* the decoded picture of an image file
Pixels(p) == IF p = <<"in", "sub", "a.jpg">> THEN "img2" ELSE "img1"

Name(p) == p[Len(p)]

Exists(p) == p \in tree

IsFile(p) == p \in tree /\ p \in FileNodes

IsUnder(p, d) == Len(p) > Len(d) /\ SubSeq(p, 1, Len(d)) = d

----------------------------------------------------------------------------
(* Discovery: AITagger._get_files, AITagger._is_supported *)

IsSupported(p) ==
    LET suffix == Lower(Suffix(Name(p)))
    IN  suffix \in SUPPORTED_IMAGES \/ suffix \in SUPPORTED_VIDEOS

\* Path.__lt__: the parts compared as tuples of str
RECURSIVE PathLess(_, _)
PathLess(p, q) ==
    IF p = <<>> THEN q # <<>>
    ELSE IF q = <<>> THEN FALSE
    ELSE IF Head(p) = Head(q) THEN PathLess(Tail(p), Tail(q))
    ELSE StrLess(Head(p), Head(q))

RECURSIVE InsertSorted(_, _)
InsertSorted(s, p) ==
    IF s = <<>> THEN <<p>>
    ELSE IF PathLess(p, Head(s)) THEN <<p>> \o s
    ELSE <<Head(s)>> \o InsertSorted(Tail(s), p)

\* sorted(files)
RECURSIVE Sorted(_)
Sorted(s) == IF s = <<>> THEN <<>> ELSE InsertSorted(Sorted(Tail(s)), Head(s))

\* path.rglob('*'): everything below path, in the order the walk lists it
Rglob(path, walk) == SelectSeq(walk, LAMBDA p : Exists(p) /\ IsUnder(p, path))

\* a faulty variant: the list is returned as the walk produced it
GetFilesUnsorted(path, walk) ==
    IF IsFile(path)
    THEN IF IsSupported(path) THEN <<path>> ELSE <<>>
    ELSE SelectSeq(Rglob(path, walk), LAMBDA p : IsFile(p) /\ IsSupported(p))

\* AITagger._get_files
GetFiles(path, walk) ==
    IF IsFile(path)
    THEN IF IsSupported(path) THEN <<path>> ELSE <<>>
    ELSE Sorted(SelectSeq(Rglob(path, walk), LAMBDA p : IsFile(p) /\ IsSupported(p)))

----------------------------------------------------------------------------
(* Captioner: ImageCaptioner.caption *)

SENTINEL == "Caption generation failed"

\* what the model decodes for a picture
Decode(image) == "caption of " \o image

\* a faulty variant: no except clause, the failure propagates
CaptionPropagates(image, infer_ok) ==
    IF infer_ok THEN [raised |-> FALSE, value |-> Decode(image)]
    ELSE [raised |-> TRUE, value |-> ""]

\* infer_ok: whether processor/generate/decode ran without raising; the
\* except clause turns a failure into the sentinel
Caption(image, infer_ok) ==
    IF infer_ok THEN [raised |-> FALSE, value |-> Decode(image)]
    ELSE [raised |-> FALSE, value |-> SENTINEL]

----------------------------------------------------------------------------
(* Processors.  A processor call yields whether it raised, the string it   *)
(* returned, and the captions the captioner returned to it, call by call.  *)

Raised == [raised |-> TRUE, value |-> "", captions |-> <<>>]

Returned(v, caps) == [raised |-> FALSE, value |-> v, captions |-> caps]

\* ImageProcessor.process
ImageProcess(p, infer) ==
    IF Corrupt(p) THEN Raised
    ELSE LET c == Caption(Pixels(p), infer[1])
         IN  IF c.raised THEN Raised ELSE Returned(c.value, <<c.value>>)

max_frames == 5

\* a faulty variant: the step is rounded up
FrameIndicesCeil(total_frames, N) ==
    IF total_frames <= N
    THEN [i \in 1..total_frames |-> i - 1]
    ELSE LET step == (total_frames + N - 1) \div N
         IN  [i \in 1..N |-> (i - 1) * step]

\* VideoProcessor._extract_frames, lines 43-53: the frame positions sampled
FrameIndices(total_frames, N) ==
    IF total_frames <= N
    THEN [i \in 1..total_frames |-> i - 1]
    ELSE LET step == total_frames \div N
         IN  [i \in 1..N |-> (i - 1) * step]

\* VideoProcessor._extract_frames: the frames read, each named by its position
ExtractFrames(v, N) ==
    IF ~v.opened THEN [raised |-> TRUE, frames |-> <<>>]
    ELSE IF v.total_frames = 0 THEN [raised |-> FALSE, frames |-> <<>>]
    ELSE [raised |-> FALSE,
          frames |-> SelectSeq(FrameIndices(v.total_frames, N),
                               LAMBDA frame_index : frame_index \in v.readable)]

\* " | ".join(captions)
RECURSIVE Join(_)
Join(captions) ==
    IF captions = <<>> THEN ""
    ELSE IF Len(captions) = 1 THEN captions[1]
    ELSE captions[1] \o " | " \o Join(Tail(captions))

\* a faulty variant: no test for an empty frame list
VideoProcessNoGuard(v, infer) ==
    LET ex == ExtractFrames(v, max_frames)
    IN  IF ex.raised THEN Raised
        ELSE LET cs == [i \in 1..Len(ex.frames) |->
                           Caption("frame " \o ToString(ex.frames[i]), infer[i])]
                 captions == [i \in 1..Len(cs) |-> cs[i].value]
             IN  IF \E i \in 1..Len(cs) : cs[i].raised THEN Raised
                 ELSE Returned(Join(captions), captions)

\* VideoProcessor.process
VideoProcess(v, infer) ==
    LET ex == ExtractFrames(v, max_frames)
    IN  IF ex.raised THEN Raised
        ELSE IF ex.frames = <<>> THEN Returned("No frames extracted from video", <<>>)
        ELSE LET cs == [i \in 1..Len(ex.frames) |->
                           Caption("frame " \o ToString(ex.frames[i]), infer[i])]
                 captions == [i \in 1..Len(cs) |-> cs[i].value]
             IN  IF \E i \in 1..Len(cs) : cs[i].raised THEN Raised
                 ELSE Returned(Join(captions), captions)

\* AITagger._process_single_file
ProcessSingleFile(p, infer) ==
    LET suffix == Lower(Suffix(Name(p)))
    IN  IF suffix \in SUPPORTED_IMAGES THEN ImageProcess(p, infer)
        ELSE IF suffix \in SUPPORTED_VIDEOS THEN VideoProcess(video, infer)
        ELSE Raised

\* the number of captioner calls processing p makes
Calls(p) ==
    LET suffix == Lower(Suffix(Name(p)))
    IN  IF suffix \in SUPPORTED_IMAGES THEN (IF Corrupt(p) THEN 0 ELSE 1)
        ELSE IF suffix \in SUPPORTED_VIDEOS
             THEN Len(ExtractFrames(video, max_frames).frames)
        ELSE 0

----------------------------------------------------------------------------
(* Rows *)

HeaderRow(format_type) ==
    IF format_type = "detailed"
    THEN <<"filename", "caption", "size_kb", "dimensions", "file_type", "date_processed">>
    ELSE <<"filename", "caption">>

\* round(st_size / 1024, 1), held in tenths of a KB
SizeKb(p) == (StSize(p) * 10 + 512) \div 1024

\* AITagger._get_file_info
GetFileInfo(p, now) ==
    [size_kb |-> SizeKb(p),
     extension |-> Lower(Suffix(Name(p))),
     date_processed |-> now,
     dimensions |-> IF Lower(Suffix(Name(p))) \in SUPPORTED_IMAGES
                    THEN (IF Corrupt(p) THEN "unknown" ELSE "640x480")
                    ELSE "N/A"]

\* process, lines 85-91
ResultRow(p, caption, format_type, now) ==
    IF format_type = "detailed"
    THEN LET file_info == GetFileInfo(p, now)
         IN  <<Name(p), caption, file_info.size_kb, file_info.dimensions,
               file_info.extension, file_info.date_processed>>
    ELSE <<Name(p), caption>>

\* a faulty variant: the placeholder row takes its metadata from the file
ErrorRowWithInfo(p, format_type, now) == ResultRow(p, "ERROR", format_type, now)

\* process, lines 107-111
ErrorRow(p, format_type, now) ==
    IF format_type = "detailed"
    THEN <<Name(p), "ERROR", 0, "unknown", Lower(Suffix(Name(p))), now>>
    ELSE <<Name(p), "ERROR">>

\* the try/except of one loop iteration, lines 82-116: the row for file p
RowFor(p, r, format_type, now) ==
    IF r.raised THEN ErrorRow(p, format_type, now)
    ELSE ResultRow(p, r.value, format_type, now)

----------------------------------------------------------------------------
(* The ledger file *)

NoLedger == [exists |-> FALSE, rows |-> <<>>]

\* a faulty variant: the header is written without looking for the file
EnsureCsvHeadersAlways(led, format_type) ==
    [exists |-> TRUE, rows |-> <<HeaderRow(format_type)>>]

\* a faulty variant: a file without content counts as missing
EnsureCsvHeadersIfEmpty(led, format_type) ==
    IF ~led.exists \/ led.rows = <<>>
    THEN [exists |-> TRUE, rows |-> <<HeaderRow(format_type)>>]
    ELSE led

\* a faulty variant: the header written does not follow format_type
EnsureCsvHeadersBasic(led, format_type) ==
    IF ~led.exists
    THEN [exists |-> TRUE, rows |-> <<HeaderRow("basic")>>]
    ELSE led

\* AITagger._ensure_csv_headers
EnsureCsvHeaders(led, format_type) ==
    IF ~led.exists
    THEN [exists |-> TRUE, rows |-> <<HeaderRow(format_type)>>]
    ELSE led

\* AITagger._write_csv: open(..., 'w') truncates
WriteCsv(rs, led, format_type) ==
    [exists |-> TRUE, rows |-> <<HeaderRow(format_type)>> \o rs]

\* AITagger._append_csv
AppendCsv(rs, led) ==
    IF rs = <<>> THEN led
    ELSE [exists |-> TRUE, rows |-> led.rows \o rs]

\* a faulty variant: opens the file with 'w' and so truncates it
SaveSingleResultTruncating(row, led) == [exists |-> TRUE, rows |-> <<row>>]

\* AITagger._save_single_result
SaveSingleResult(row, led) == [exists |-> TRUE, rows |-> Append(led.rows, row)]

\* a faulty variant: rows whose caption is "ERROR" are left out of the set
GetExistingFilesNoErrors(led) ==
    IF ~led.exists THEN {}
    ELSE {led.rows[i][1] : i \in {j \in 2..Len(led.rows) :
                                     Len(led.rows[j]) >= 2 /\ led.rows[j][2] # "ERROR"}}

\* AITagger._get_existing_files: next(reader, None) drops the first record
GetExistingFiles(led) ==
    IF ~led.exists THEN {}
    ELSE {led.rows[i][1] : i \in {j \in 2..Len(led.rows) : Len(led.rows[j]) >= 1}}

----------------------------------------------------------------------------
(* Runs of the tool *)

Formats == {"basic", "detailed"}

NoProbe == [pc |-> "off"]

\* datetime.now(), told apart run by run
Now == "t" \o ToString(runs)

Args(skip, cont, fmt, input) ==
    [skip_existing |-> skip, continuous_save |-> cont, format_type |-> fmt,
     input_path |-> input]

\* no run yet: the output file does not exist
NoRunYet ==
    /\ ledger = NoLedger
    /\ pc = "idle"
    /\ cfg = Args(TRUE, TRUE, "detailed", <<"in">>)
    /\ existing_files = {}
    /\ files_to_process = <<>>
    /\ idx = 1
    /\ results = <<>>
    /\ runs = 0
    /\ outcome = "none"
    /\ ledger0 = NoLedger
    /\ started = NoLedger
    /\ discovered = <<>>
    /\ log = <<>>
    /\ prev = [outcome |-> "none", continuous_save |-> TRUE]
    /\ formats = {}

Init ==
    /\ tree = BaseTree
    /\ video = NoVideo
    /\ NoRunYet
    /\ probe = NoProbe

\* somebody copies a video into the input directory between two runs
CopyVideo(v) ==
    /\ pc = "idle"
    /\ VideoNode \notin tree
    /\ tree' = tree \cup {VideoNode}
    /\ video' = v
    /\ UNCHANGED <<ledger, pc, cfg, existing_files, files_to_process, idx, results,
                   runs, outcome, ledger0, started, discovered, log, prev, formats, probe>>

\* main, lines 24-27: the input path does not exist
MainExit(skip, cont, fmt, input) ==
    /\ pc = "idle"
    /\ runs < MaxRuns
    /\ ~Exists(input)
    /\ runs' = runs + 1
    /\ cfg' = Args(skip, cont, fmt, input)
    /\ outcome' = "exit1"
    /\ prev' = [outcome |-> outcome, continuous_save |-> cfg.continuous_save]
    /\ ledger0' = ledger
    /\ started' = ledger
    /\ existing_files' = {}
    /\ files_to_process' = <<>>
    /\ discovered' = <<>>
    /\ idx' = 1
    /\ results' = <<>>
    /\ log' = <<>>
    /\ UNCHANGED <<tree, video, ledger, pc, formats, probe>>

\* a faulty variant: compares the path, not its name, with the resume set
FilterExistingByPath(files, skip, existing) ==
    IF skip /\ existing # {}
    THEN SelectSeq(files, LAMBDA f : f \notin existing)
    ELSE files

\* process, lines 66-68: the files left after the resume set is applied
FilterExisting(files, skip, existing) ==
    IF skip /\ existing # {}
    THEN SelectSeq(files, LAMBDA f : Name(f) \notin existing)
    ELSE files

\* main, lines 29-36, and process, lines 53-79: everything before the loop
Startup(skip, cont, fmt, input, walk) ==
    /\ pc = "idle"
    /\ runs < MaxRuns
    /\ Exists(input)
    /\ LET led1 == IF cont THEN EnsureCsvHeaders(ledger, fmt) ELSE ledger
           existing == IF skip THEN GetExistingFiles(led1) ELSE {}
           files == GetFiles(input, walk)
           todo == FilterExisting(files, skip, existing)
       IN  /\ ledger' = led1
           /\ started' = led1
           /\ existing_files' = existing
           /\ discovered' = files
           /\ files_to_process' = todo
           /\ IF files = <<>> THEN pc' = "idle" /\ outcome' = "nofiles"
              ELSE IF todo = <<>> THEN pc' = "idle" /\ outcome' = "allskipped"
              ELSE pc' = "loop" /\ outcome' = "running"
    /\ runs' = runs + 1
    /\ cfg' = Args(skip, cont, fmt, input)
    /\ prev' = [outcome |-> outcome, continuous_save |-> cfg.continuous_save]
    /\ ledger0' = ledger
    /\ formats' = formats \cup {fmt}
    /\ idx' = 1
    /\ results' = <<>>
    /\ log' = <<>>
    /\ UNCHANGED <<tree, video, probe>>

\* a faulty variant: a buffered row is put in front of the earlier ones
PersistPrepend(row, led, rs, cont) ==
    IF cont
    THEN [ledger |-> SaveSingleResult(row, led), results |-> rs]
    ELSE [ledger |-> led, results |-> <<row>> \o rs]

\* a faulty variant: a buffered run also saves each row at once
PersistWriteThrough(row, led, rs, cont) ==
    [ledger |-> SaveSingleResult(row, led),
     results |-> IF cont THEN rs ELSE Append(rs, row)]

\* process, lines 93-100 and 113-116: where the row of one file goes
Persist(row, led, rs, cont) ==
    IF cont
    THEN [ledger |-> SaveSingleResult(row, led), results |-> rs]
    ELSE [ledger |-> led, results |-> Append(rs, row)]

\* process, lines 81-116: one iteration of the loop
Step ==
    /\ pc = "loop"
    /\ idx <= Len(files_to_process)
    /\ LET file_path == files_to_process[idx]
       IN  \E infer \in [1..Calls(file_path) -> BOOLEAN] :
             LET r == ProcessSingleFile(file_path, infer)
                 row == RowFor(file_path, r, cfg.format_type, Now)
                 out == Persist(row, ledger, results, cfg.continuous_save)
             IN  /\ ledger' = out.ledger
                 /\ results' = out.results
                 /\ log' = Append(log, [file |-> file_path, raised |-> r.raised,
                                        value |-> r.value, captions |-> r.captions,
                                        infer |-> infer])
    /\ idx' = idx + 1
    /\ UNCHANGED <<tree, video, pc, cfg, existing_files, files_to_process, runs,
                   outcome, ledger0, started, discovered, prev, formats, probe>>

\* a faulty variant: the final write never appends
FinalWriteAlwaysFresh(rs, led, args, existing) ==
    IF args.continuous_save THEN led
    ELSE WriteCsv(rs, led, args.format_type)

\* process, lines 118-124: the write that ends a buffered run
FinalWrite(rs, led, args, existing) ==
    IF args.continuous_save THEN led
    ELSE IF args.skip_existing /\ existing # {} THEN AppendCsv(rs, led)
    ELSE WriteCsv(rs, led, args.format_type)

\* process, lines 118-126: the loop is over
Finish ==
    /\ pc = "loop"
    /\ idx > Len(files_to_process)
    /\ ledger' = FinalWrite(results, ledger, cfg, existing_files)
    /\ pc' = "idle"
    /\ outcome' = "done"
    /\ UNCHANGED <<tree, video, cfg, existing_files, files_to_process, idx, results,
                   runs, ledger0, started, discovered, log, prev, formats, probe>>

\* the process is killed between two file steps; what it buffered is lost
Interrupt ==
    /\ pc = "loop"
    /\ pc' = "idle"
    /\ outcome' = "interrupted"
    /\ results' = <<>>
    /\ UNCHANGED <<tree, video, ledger, cfg, existing_files, files_to_process, idx,
                   runs, ledger0, started, discovered, log, prev, formats, probe>>

Next ==
    \/ \E v \in VideoContents : CopyVideo(v)
    \/ \E skip \in BOOLEAN, cont \in BOOLEAN, fmt \in Formats, input \in InputPaths :
         MainExit(skip, cont, fmt, input)
    \/ \E skip \in BOOLEAN, cont \in BOOLEAN, fmt \in Formats, input \in InputPaths,
          walk \in WalkOrders :
         Startup(skip, cont, fmt, input, walk)
    \/ Step
    \/ Finish
    \/ Interrupt

Spec == Init /\ [][Next]_vars

----------------------------------------------------------------------------
(* Frame sampling on its own: _extract_frames' choice of positions for any *)
(* frame count and any max_frames.                                         *)

MaxTotalFrames == 100

MaxMaxFrames == 6

InitFrames ==
    /\ tree = BaseTree
    /\ video = NoVideo
    /\ NoRunYet
    /\ probe \in {[pc |-> "video", total_frames |-> T, N |-> N, frame_indices |-> <<>>] :
                    T \in 1..MaxTotalFrames, N \in 1..MaxMaxFrames}

SampleFrames ==
    /\ probe.pc = "video"
    /\ probe' = [probe EXCEPT !.pc = "sampled",
                              !.frame_indices = FrameIndices(probe.total_frames, probe.N)]
    /\ UNCHANGED <<tree, video, ledger, pc, cfg, existing_files, files_to_process, idx,
                   results, runs, outcome, ledger0, started, discovered, log, prev,
                   formats>>

NextFrames == SampleFrames

SpecFrames == InitFrames /\ [][NextFrames]_vars

----------------------------------------------------------------------------
(* Discovery on its own: _get_files over any tree of at most MaxNodes      *)
(* entries, listed by the operating system in any order.                   *)

MaxNodes == 5

Root == <<"in">>

AllNodes == (DirNodes \cup FileNodes) \ {Root}

Parent(p) == SubSeq(p, 1, Len(p) - 1)

Trees == {X \in SUBSET AllNodes :
            /\ Cardinality(X) <= MaxNodes
            /\ \A p \in X : Parent(p) \in X \cup {Root}
            /\ \A p \in X : Parent(p) \in DirNodes}

Range(s) == {s[i] : i \in 1..Len(s)}

InitDiscovery ==
    /\ tree \in {X \cup {Root} : X \in Trees}
    /\ video = NoVideo
    /\ NoRunYet
    /\ probe = [pc |-> "walk", walk |-> <<>>]

\* the walk lists one more entry
Yield(p) ==
    /\ probe.pc = "walk"
    /\ p \in tree \ {Root}
    /\ p \notin Range(probe.walk)
    /\ probe' = [probe EXCEPT !.walk = Append(probe.walk, p)]
    /\ UNCHANGED <<tree, video, ledger, pc, cfg, existing_files, files_to_process, idx,
                   results, runs, outcome, ledger0, started, discovered, log, prev,
                   formats>>

\* _get_files(input) over the finished walk
Discover(input) ==
    /\ probe.pc = "walk"
    /\ Range(probe.walk) = tree \ {Root}
    /\ Exists(input)
    /\ probe' = [pc |-> "discovered", input |-> input,
                 files |-> GetFiles(input, probe.walk)]
    /\ UNCHANGED <<tree, video, ledger, pc, cfg, existing_files, files_to_process, idx,
                   results, runs, outcome, ledger0, started, discovered, log, prev,
                   formats>>

NextDiscovery ==
    \/ \E p \in AllNodes : Yield(p)
    \/ \E input \in AllNodes \cup {Root} : Discover(input)

SpecDiscovery == InitDiscovery /\ [][NextDiscovery]_vars

----------------------------------------------------------------------------
(* The default use: every run skips what the ledger records, saves as it   *)
(* goes and is given the same input directory.                             *)

NextResume ==
    \/ \E v \in VideoContents : CopyVideo(v)
    \/ \E fmt \in Formats, walk \in WalkOrders : Startup(TRUE, TRUE, fmt, Root, walk)
    \/ Step
    \/ Finish
    \/ Interrupt

SpecResume == Init /\ [][NextResume]_vars

----------------------------------------------------------------------------
(* Runs on an output file that may be there before the first run, without  *)
(* content.                                                                *)

\* an output file that exists and holds nothing
EmptyLedger == [exists |-> TRUE, rows |-> <<>>]

InitPre ==
    /\ tree = BaseTree
    /\ video = NoVideo
    /\ probe = NoProbe
    /\ ledger \in {NoLedger, EmptyLedger}
    /\ pc = "idle"
    /\ cfg = Args(TRUE, TRUE, "detailed", <<"in">>)
    /\ existing_files = {}
    /\ files_to_process = <<>>
    /\ idx = 1
    /\ results = <<>>
    /\ runs = 0
    /\ outcome = "none"
    /\ ledger0 = NoLedger
    /\ started = NoLedger
    /\ discovered = <<>>
    /\ log = <<>>
    /\ prev = [outcome |-> "none", continuous_save |-> TRUE]
    /\ formats = {}

SpecPre == InitPre /\ [][Next]_vars

----------------------------------------------------------------------------
(* Runs in which the output file may refuse to be opened: open() raises    *)
(* OSError when the ledger is read at startup, when a row is saved or at   *)
(* the final write.  probe counts the failures.                            *)

MaxFaults == 1

InitFaults ==
    /\ tree = BaseTree
    /\ video = NoVideo
    /\ NoRunYet
    /\ probe = [pc |-> "faults", n |-> 0]

FaultLeft == probe.pc = "faults" /\ probe.n < MaxFaults

OneMoreFault == probe' = [probe EXCEPT !.n = probe.n + 1]

\* _get_existing_files, lines 212-227: open raises, the except clause keeps
\* the set read so far, which is empty; process goes on as in Startup
ReadLedgerFails(cont, fmt, input, walk) ==
    /\ pc = "idle"
    /\ runs < MaxRuns
    /\ Exists(input)
    /\ FaultLeft
    /\ LET led1 == IF cont THEN EnsureCsvHeaders(ledger, fmt) ELSE ledger
           existing == {}
           files == GetFiles(input, walk)
           todo == FilterExisting(files, TRUE, existing)
       IN  /\ led1.exists
           /\ ledger' = led1
           /\ started' = led1
           /\ existing_files' = existing
           /\ discovered' = files
           /\ files_to_process' = todo
           /\ IF files = <<>> THEN pc' = "idle" /\ outcome' = "nofiles"
              ELSE IF todo = <<>> THEN pc' = "idle" /\ outcome' = "allskipped"
              ELSE pc' = "loop" /\ outcome' = "running"
    /\ runs' = runs + 1
    /\ cfg' = Args(TRUE, cont, fmt, input)
    /\ prev' = [outcome |-> outcome, continuous_save |-> cfg.continuous_save]
    /\ ledger0' = ledger
    /\ formats' = formats \cup {fmt}
    /\ idx' = 1
    /\ results' = <<>>
    /\ log' = <<>>
    /\ OneMoreFault
    /\ UNCHANGED <<tree, video>>

\* process, lines 82-114: the file was processed, _save_single_result(result)
\* raises inside the try, and the except clause saves the ERROR row instead
SaveFailsOnce ==
    /\ pc = "loop"
    /\ idx <= Len(files_to_process)
    /\ cfg.continuous_save
    /\ FaultLeft
    /\ LET file_path == files_to_process[idx]
       IN  \E infer \in [1..Calls(file_path) -> BOOLEAN] :
             LET r == ProcessSingleFile(file_path, infer)
             IN  /\ ~r.raised
                 /\ ledger' = SaveSingleResult(ErrorRow(file_path, cfg.format_type, Now),
                                               ledger)
                 /\ log' = Append(log, [file |-> file_path, raised |-> r.raised,
                                        value |-> r.value, captions |-> r.captions,
                                        infer |-> infer])
    /\ idx' = idx + 1
    /\ OneMoreFault
    /\ UNCHANGED <<tree, video, pc, cfg, existing_files, files_to_process, results,
                   runs, outcome, ledger0, started, discovered, prev, formats>>

\* process, lines 102-114: _save_single_result(error_result) raises inside the
\* except clause (after the processor raised, or after the save in the try
\* raised): nothing catches it and the run ends with a traceback
SaveFailsInHandler ==
    /\ pc = "loop"
    /\ idx <= Len(files_to_process)
    /\ cfg.continuous_save
    /\ FaultLeft
    /\ LET file_path == files_to_process[idx]
       IN  \E infer \in [1..Calls(file_path) -> BOOLEAN] :
             LET r == ProcessSingleFile(file_path, infer)
             IN  log' = Append(log, [file |-> file_path, raised |-> r.raised,
                                     value |-> r.value, captions |-> r.captions,
                                     infer |-> infer])
    /\ pc' = "idle"
    /\ outcome' = "crashed"
    /\ results' = <<>>
    /\ OneMoreFault
    /\ UNCHANGED <<tree, video, ledger, cfg, existing_files, files_to_process, idx,
                   runs, ledger0, started, discovered, prev, formats>>

\* process, lines 118-124: the open of _append_csv or _write_csv raises; the
\* call is in no try and the buffered rows are lost
FinalWriteFails ==
    /\ pc = "loop"
    /\ idx > Len(files_to_process)
    /\ ~cfg.continuous_save
    /\ FaultLeft
    /\ pc' = "idle"
    /\ outcome' = "crashed"
    /\ results' = <<>>
    /\ OneMoreFault
    /\ UNCHANGED <<tree, video, ledger, cfg, existing_files, files_to_process, idx,
                   runs, ledger0, started, discovered, log, prev, formats>>

\* the runs are over the whole input directory, or over a path that is missing
FaultInputs == {Root, <<"in", "missing">>}

NextFaults ==
    \/ \E v \in VideoContents : CopyVideo(v)
    \/ \E skip \in BOOLEAN, cont \in BOOLEAN, fmt \in Formats, input \in FaultInputs :
         MainExit(skip, cont, fmt, input)
    \/ \E skip \in BOOLEAN, cont \in BOOLEAN, fmt \in Formats, input \in FaultInputs,
          walk \in WalkOrders :
         Startup(skip, cont, fmt, input, walk)
    \/ Step
    \/ Finish
    \/ Interrupt
    \/ \E cont \in BOOLEAN, fmt \in Formats, input \in FaultInputs, walk \in WalkOrders :
         ReadLedgerFails(cont, fmt, input, walk)
    \/ SaveFailsOnce
    \/ SaveFailsInHandler
    \/ FinalWriteFails

SpecFaults == InitFaults /\ [][NextFaults]_vars

----------------------------------------------------------------------------
(* Vocabulary of the properties *)

IsPrefix(s, t) == Len(s) <= Len(t) /\ SubSeq(t, 1, Len(s)) = s

IsHeader(row) == \E f \in Formats : row = HeaderRow(f)

\* the file names a ledger records: the first cell of every row but the header
LedgerNames(led) ==
    {led.rows[i][1] : i \in {j \in 1..Len(led.rows) : ~IsHeader(led.rows[j])}}

\* the last run got as far as process()
Processed == runs > 0 /\ outcome # "exit1"

\* the last run is resuming: skipping is on and the resume set is not empty
Resuming == cfg.skip_existing /\ existing_files # {}

\* the rows the last run has put into the ledger, or holds in its buffer
RunRows ==
    IF cfg.continuous_save \/ (outcome = "done" /\ Resuming)
    THEN SubSeq(ledger.rows, Len(started.rows) + 1, Len(ledger.rows))
    ELSE IF outcome = "done" THEN Tail(ledger.rows)
    ELSE results

\* the names of the first n files of a list, in order
NamesOf(files, n) == [i \in 1..n |-> Name(files[i])]

FirstCells(rows) == [i \in 1..Len(rows) |-> rows[i][1]]

----------------------------------------------------------------------------
(* C1  Resume.  In a run with skipping enabled the files handed to a       *)
(* processor are exactly the discovered files whose name the ledger read   *)
(* at startup does not record, in discovery order; when that ledger        *)
(* records some files and the run completes, the ledger is the old ledger, *)
(* row for row, followed by one row per file processed.                    *)
C1_Resume ==
    (Processed /\ cfg.skip_existing) =>
        /\ files_to_process =
              SelectSeq(discovered, LAMBDA f : Name(f) \notin LedgerNames(ledger0))
        /\ Len(log) = idx - 1
        /\ \A i \in 1..Len(log) : log[i].file = files_to_process[i]
        /\ (outcome = "done" /\ LedgerNames(ledger0) # {}) =>
              /\ IsPrefix(ledger0.rows, ledger.rows)
              /\ FirstCells(SubSeq(ledger.rows, Len(ledger0.rows) + 1, Len(ledger.rows)))
                    = NamesOf(files_to_process, Len(files_to_process))

\* a ledger recording a.jpg and B.PNG, a discovery that also finds c.mp4: the
\* completed run has processed c.mp4 alone and added one row
C1_Witness ==
    /\ outcome = "done"
    /\ cfg.skip_existing
    /\ LedgerNames(ledger0) = {"a.jpg", "B.PNG"}
    /\ Len(discovered) = 4
    /\ files_to_process = <<VideoNode>>
    /\ Len(log) = 1
    /\ Len(ledger.rows) = Len(ledger0.rows) + 1

----------------------------------------------------------------------------
----------------------------------------------------------------------------
(* C3  Per-file failure containment.  Processing a file raises exactly     *)
(* when it is a corrupt image, a video that does not open or a file of an  *)
(* unsupported suffix; the run then records one row for it with caption    *)
(* "ERROR" (size 0 and dimensions "unknown" in detailed format) and goes   *)
(* on; the rows of a run correspond one to one, in order, to the files it  *)
(* has processed, and a completed run has processed every selected file.   *)
FileFails(p) ==
    LET suffix == Lower(Suffix(Name(p)))
    IN  \/ suffix \in SUPPORTED_IMAGES /\ Corrupt(p)
        \/ suffix \in SUPPORTED_VIDEOS /\ ~video.opened
        \/ suffix \notin SUPPORTED_IMAGES \cup SUPPORTED_VIDEOS

C3_FailureContained ==
    (outcome \in {"running", "done"} \/ (outcome = "interrupted" /\ cfg.continuous_save)) =>
        /\ Len(RunRows) = Len(log)
        /\ \A i \in 1..Len(log) :
              /\ log[i].raised = FileFails(log[i].file)
              /\ RunRows[i][1] = Name(log[i].file)
              /\ log[i].raised =>
                    /\ RunRows[i][2] = "ERROR"
                    /\ cfg.format_type = "detailed" =>
                          RunRows[i][3] = 0 /\ RunRows[i][4] = "unknown"
              /\ ~log[i].raised =>
                    RunRows[i][2] = log[i].value /\ RunRows[i][2] # "ERROR"
        /\ outcome = "done" =>
              [i \in 1..Len(log) |-> log[i].file] = files_to_process

\* a completed detailed run in which a corrupt image and a video that does
\* not open each got an ERROR row and the files after them a caption row
C3_Witness ==
    /\ outcome = "done"
    /\ cfg.format_type = "detailed"
    /\ Len(log) = 4
    /\ log[1].raised /\ ~log[2].raised /\ log[3].raised /\ ~log[4].raised
    /\ log[3].file = VideoNode
    /\ RunRows[1][2] = "ERROR" /\ RunRows[2][2] # "ERROR"

----------------------------------------------------------------------------
(* C4  Ledger schema.  As long as all runs on the output file used one     *)
(* format, whenever the ledger exists its first row is that format's       *)
(* header and every row has as many cells as the header: 2 for basic, 6    *)
(* for detailed.                                                           *)
C4_Schema ==
    (Cardinality(formats) <= 1 /\ ledger.exists) =>
        /\ formats # {}
        /\ \A f \in formats :
              /\ Len(ledger.rows) >= 1
              /\ ledger.rows[1] = HeaderRow(f)
              /\ Len(HeaderRow(f)) = (IF f = "basic" THEN 2 ELSE 6)
              /\ \A i \in 1..Len(ledger.rows) : Len(ledger.rows[i]) = Len(HeaderRow(f))

\* two detailed runs in different persistence modes have left a ledger with
\* an ERROR row and a caption row
C4_Witness ==
    /\ runs = 2
    /\ formats = {"detailed"}
    /\ prev.outcome = "done"
    /\ outcome = "done"
    /\ prev.continuous_save # cfg.continuous_save
    /\ \E i, j \in 2..Len(ledger.rows) :
          ledger.rows[i][2] = "ERROR" /\ ledger.rows[j][2] # "ERROR"
    /\ Len(ledger.rows) > Len(ledger0.rows)
    /\ Len(ledger0.rows) > 1

----------------------------------------------------------------------------
(* C5  Append-only ledger, as claimed: in every run the rows the ledger    *)
(* held before the run remain, unchanged and in order, a prefix of it.     *)
C5_AppendOnly ==
    Processed => IsPrefix(ledger0.rows, ledger.rows)

(* C5  as amended: the rows held before the run remain a prefix in every   *)
(* incremental run, in every buffered run that is resuming and in every    *)
(* buffered run up to its final write; the final write of a buffered run   *)
(* that is not resuming replaces the ledger by the header and the rows of  *)
(* this run.                                                               *)
C5_AppendOrReplace ==
    Processed =>
        IF outcome = "done" /\ ~cfg.continuous_save /\ ~Resuming
        THEN /\ ledger.rows[1] = HeaderRow(cfg.format_type)
             /\ FirstCells(Tail(ledger.rows))
                   = NamesOf(files_to_process, Len(files_to_process))
             /\ \A i \in 2..Len(ledger.rows) :
                   cfg.format_type = "detailed" => ledger.rows[i][6] = Now
        ELSE IsPrefix(ledger0.rows, ledger.rows)

\* a buffered run without skipping has replaced a ledger that held rows
C5_Witness ==
    /\ outcome = "done"
    /\ ~cfg.continuous_save
    /\ ~cfg.skip_existing
    /\ Len(ledger0.rows) >= 3
    /\ ~IsPrefix(ledger0.rows, ledger.rows)

----------------------------------------------------------------------------
(* C6  Persistence modes.  A file step of an incremental run appends one   *)
(* row, that file's, to the ledger; a file step of a buffered run leaves   *)
(* the ledger as it is and buffers the row, as does its startup; the end   *)
(* of a buffered run writes all its rows at once, after the existing rows  *)
(* when the run is resuming and after a new header otherwise.              *)
C6_PersistenceModes ==
    [][ /\ (pc = "loop" /\ idx' = idx + 1) =>
              IF cfg.continuous_save
              THEN /\ Len(ledger'.rows) = Len(ledger.rows) + 1
                   /\ IsPrefix(ledger.rows, ledger'.rows)
                   /\ ledger'.rows[Len(ledger'.rows)][1] = Name(files_to_process[idx])
                   /\ results' = <<>>
              ELSE /\ ledger' = ledger
                   /\ Len(results') = Len(results) + 1
                   /\ IsPrefix(results, results')
                   /\ results'[Len(results')][1] = Name(files_to_process[idx])
        /\ (pc = "idle" /\ pc' = "loop" /\ ~cfg'.continuous_save) => ledger' = ledger
        /\ (pc = "loop" /\ outcome' = "done") =>
              IF cfg.continuous_save THEN ledger' = ledger
              ELSE /\ Len(results) = Len(files_to_process)
                   /\ ledger'.exists
                   /\ ledger'.rows = (IF cfg.skip_existing /\ existing_files # {}
                                      THEN ledger.rows \o results
                                      ELSE <<HeaderRow(cfg.format_type)>> \o results)
      ]_vars

\* a buffered, resuming run has ended: its rows follow the rows it found
C6_Witness ==
    /\ outcome = "done"
    /\ ~cfg.continuous_save
    /\ Resuming
    /\ Len(results) >= 2
    /\ ledger.rows = ledger0.rows \o results

----------------------------------------------------------------------------
(* C7  Video frame sampling.  For T > 0 frames and max_frames N > 0 the    *)
(* sampled positions are 0..T-1 when T <= N and otherwise the N positions  *)
(* i * (T div N), i = 0..N-1: strictly increasing, evenly spaced, all      *)
(* below T; their number is min(T, N).  T = 3, N = 5 gives 0,1,2 and       *)
(* T = 100, N = 5 gives 0,20,40,60,80.                                     *)
Min(a, b) == IF a <= b THEN a ELSE b

C7_FrameSampling ==
    probe.pc = "sampled" =>
        LET T == probe.total_frames
            N == probe.N
            ix == probe.frame_indices
        IN  /\ Len(ix) = Min(T, N)
            /\ T <= N => \A i \in 1..Len(ix) : ix[i] = i - 1
            /\ T > N => \A i \in 1..Len(ix) : ix[i] = (i - 1) * (T \div N)
            /\ \A i \in 1..Len(ix) : ix[i] >= 0 /\ ix[i] < T
            /\ \A i \in 1..(Len(ix) - 1) :
                  ix[i] < ix[i + 1] /\ ix[i + 1] - ix[i] = ix[2] - ix[1]
            /\ (T = 3 /\ N = 5) => ix = <<0, 1, 2>>
            /\ (T = 100 /\ N = 5) => ix = <<0, 20, 40, 60, 80>>

\* 100 frames sampled with max_frames 5
C7_Witness ==
    /\ probe.pc = "sampled"
    /\ probe.total_frames = 100
    /\ probe.N = 5
    /\ probe.frame_indices = <<0, 20, 40, 60, 80>>

----------------------------------------------------------------------------
(* C8  Zero-frame video.  When the video opens and no sampled position can *)
(* be read (it reports 0 frames, or every read fails), the processor       *)
(* returns "No frames extracted from video" without raising and without a  *)
(* call of the captioner, and the row of the file carries that string as   *)
(* its caption, not "ERROR".                                               *)
IsVideo(p) == Lower(Suffix(Name(p))) \in SUPPORTED_VIDEOS

NoFrameVideo ==
    /\ video.opened
    /\ \A k \in Range(FrameIndices(video.total_frames, max_frames)) :
          k \notin video.readable

\* the last run's rows can be told: it is running, complete, or was saving
\* as it went
RowsKnown ==
    outcome \in {"running", "done"} \/ (outcome = "interrupted" /\ cfg.continuous_save)

C8_ZeroFrames ==
    RowsKnown =>
        \A i \in 1..Len(log) :
            (IsVideo(log[i].file) /\ NoFrameVideo) =>
                /\ ~log[i].raised
                /\ log[i].value = "No frames extracted from video"
                /\ log[i].captions = <<>>
                /\ RunRows[i][1] = Name(log[i].file)
                /\ RunRows[i][2] = "No frames extracted from video"

\* a video of 12 frames none of which can be read got its "no frames" row
C8_Witness ==
    /\ outcome = "done"
    /\ video.opened
    /\ video.total_frames = 12
    /\ video.readable = {}
    /\ \E i \in 1..Len(log) :
          /\ log[i].file = VideoNode
          /\ RunRows[i][2] = "No frames extracted from video"

----------------------------------------------------------------------------
(* C9  Discovery.  For a directory the list is in strictly ascending path  *)
(* order, hence without duplicates, and holds exactly the regular files    *)
(* below the directory, at any depth, whose extension is, case ignored,    *)
(* one of the 6 image or 6 video extensions; for a single file it is that  *)
(* file if its extension is recognized and is empty otherwise.             *)
Recognized(p) ==
    \E e \in SUPPORTED_IMAGES \cup SUPPORTED_VIDEOS : Lower(Suffix(Name(p))) = Lower(e)

C9_Discovery ==
    probe.pc = "discovered" =>
        LET files == probe.files
            input == probe.input
        IN  /\ Cardinality(SUPPORTED_IMAGES) = 6 /\ Cardinality(SUPPORTED_VIDEOS) = 6
            /\ \A i \in 1..(Len(files) - 1) : PathLess(files[i], files[i + 1])
            /\ Cardinality(Range(files)) = Len(files)
            /\ input \in DirNodes =>
                  Range(files) = {p \in tree : /\ p \in FileNodes
                                               /\ IsUnder(p, input)
                                               /\ Recognized(p)}
            /\ input \in FileNodes =>
                  files = (IF Recognized(input) THEN <<input>> ELSE <<>>)

\* a tree with an upper-case extension, a text file and a subdirectory
C9_Witness ==
    /\ probe.pc = "discovered"
    /\ probe.input = Root
    /\ <<"in", "notes.txt">> \in tree
    /\ probe.files = << <<"in", "B.PNG">>, <<"in", "a.jpg">>, <<"in", "sub", "a.jpg">> >>

----------------------------------------------------------------------------
(* C10  Inference failure is not a per-file error.  A captioner call whose *)
(* inference raises returns "Caption generation failed"; the processor     *)
(* does not raise because of it, the row of the file carries the sentinel  *)
(* as its caption (for a video, at the place of that frame among the       *)
(* captions joined by " | "), the row is no ERROR row, and a completed run *)
(* has gone through all its files.                                         *)
RECURSIVE JoinFirst(_, _)
JoinFirst(captions, n) ==
    IF n = 0 THEN ""
    ELSE IF n = 1 THEN captions[1]
    ELSE JoinFirst(captions, n - 1) \o " | " \o captions[n]

C10_InferenceFailure ==
    RowsKnown =>
        /\ \A i \in 1..Len(log) :
              LET e == log[i]
                  calls == DOMAIN e.infer
              IN  (\E j \in calls : ~e.infer[j]) =>
                     /\ ~e.raised
                     /\ Len(e.captions) = Len(e.infer)
                     /\ \A j \in calls : (e.captions[j] = SENTINEL) = ~e.infer[j]
                     /\ e.value = JoinFirst(e.captions, Len(e.captions))
                     /\ RunRows[i][1] = Name(e.file)
                     /\ RunRows[i][2] = e.value
                     /\ RunRows[i][2] # "ERROR"
        /\ outcome = "done" => Len(log) = Len(files_to_process)

\* inference failed on an image and on the second of three video frames; the
\* run went on to the file after the video
C10_Witness ==
    /\ outcome = "done"
    /\ \E i \in 1..Len(log) : RunRows[i][2] = SENTINEL
    /\ \E i \in 1..(Len(log) - 1) :
          /\ log[i].file = VideoNode
          /\ log[i].infer = <<TRUE, FALSE, TRUE>>
          /\ RunRows[i][2] =
                "caption of frame 2 | Caption generation failed | caption of frame 8"

----------------------------------------------------------------------------
(* C12  Strictly sequential processing.  The files of a run are taken one  *)
(* at a time in the ascending order of discovery; whenever k files have    *)
(* been processed they are the first k of the list, and the rows the run   *)
(* has put (into the ledger in incremental mode, before the next file is   *)
(* begun) are the rows of those k files in that order.                     *)
Ascending(files) == \A i \in 1..(Len(files) - 1) : PathLess(files[i], files[i + 1])

C12_Sequential ==
    /\ Processed =>
          /\ Ascending(discovered)
          /\ Ascending(files_to_process)
          /\ Range(files_to_process) \subseteq Range(discovered)
          /\ Len(log) = idx - 1
          /\ Len(log) <= Len(files_to_process)
          /\ \A i \in 1..Len(log) : log[i].file = files_to_process[i]
    /\ RowsKnown => FirstCells(RunRows) = NamesOf(files_to_process, Len(log))

\* a buffered run over the whole tree has written its four rows in order
C12_Witness ==
    /\ outcome = "done"
    /\ ~cfg.continuous_save
    /\ Len(files_to_process) = 4
    /\ FirstCells(RunRows) = <<"B.PNG", "a.jpg", "c.mp4", "a.jpg">>

----------------------------------------------------------------------------
(* C15  Failed files are not retried.  A file name with an ERROR row in    *)
(* the ledger a run starts with is in the resume set of a run that skips:  *)
(* such a run processes no file of that name and keeps the old rows, the   *)
(* ERROR row among them, as a prefix of the ledger; a run that processes   *)
(* a file of that name has skipping disabled.                              *)
ErrorNames(led) ==
    {led.rows[i][1] : i \in {j \in 1..Len(led.rows) :
                               ~IsHeader(led.rows[j]) /\ led.rows[j][2] = "ERROR"}}

C15_FailedNotRetried ==
    Processed =>
        \A n \in ErrorNames(ledger0) :
            /\ cfg.skip_existing =>
                  /\ n \in existing_files
                  /\ \A i \in 1..Len(files_to_process) : Name(files_to_process[i]) # n
                  /\ \A i \in 1..Len(log) : Name(log[i].file) # n
                  /\ IsPrefix(ledger0.rows, ledger.rows)
                  /\ n \in ErrorNames(ledger)
            /\ (\E i \in 1..Len(log) : Name(log[i].file) = n) => ~cfg.skip_existing

\* B.PNG failed in the first run; the second run, skipping, found it again,
\* processed something else and left its ERROR row in place
C15_Witness ==
    /\ outcome = "done"
    /\ cfg.skip_existing
    /\ "B.PNG" \in ErrorNames(ledger0)
    /\ <<"in", "B.PNG">> \in Range(discovered)
    /\ Len(log) >= 1
    /\ "B.PNG" \in ErrorNames(ledger)

----------------------------------------------------------------------------
(* C16  Nothing to do.  When discovery finds no supported file, or         *)
(* skipping is enabled and the ledger records every discovered file, the   *)
(* run returns before the loop: no file is processed and the ledger is     *)
(* what it was, except that in incremental mode a ledger that did not      *)
(* exist now holds the header and nothing else; in buffered mode the file  *)
(* is neither created nor changed.                                         *)
NothingToDo ==
    \/ discovered = <<>>
    \/ /\ cfg.skip_existing
       /\ \A f \in Range(discovered) : Name(f) \in LedgerNames(ledger0)

C16_NothingToDo ==
    (Processed /\ NothingToDo) =>
        /\ outcome \in {"nofiles", "allskipped"}
        /\ pc = "idle"
        /\ log = <<>>
        /\ results = <<>>
        /\ ledger = (IF cfg.continuous_save /\ ~ledger0.exists
                     THEN [exists |-> TRUE, rows |-> <<HeaderRow(cfg.format_type)>>]
                     ELSE ledger0)

\* a buffered run found every file already recorded and left the ledger alone
C16_Witness ==
    /\ outcome = "allskipped"
    /\ ~cfg.continuous_save
    /\ Len(discovered) >= 2
    /\ Len(ledger0.rows) >= 3
    /\ ledger = ledger0

----------------------------------------------------------------------------
(* C14  No duplicate ledger entries.  Starting without a ledger, after any *)
(* sequence of complete or interrupted runs that skip, save as they go and *)
(* are given the same directory, no two rows of the ledger have the same   *)
(* file name in their first cell.                                          *)
C14_NoDuplicates ==
    \A i, j \in 1..Len(ledger.rows) :
        (i # j /\ ~IsHeader(ledger.rows[i]) /\ ~IsHeader(ledger.rows[j]))
            => ledger.rows[i][1] # ledger.rows[j][1]

----------------------------------------------------------------------------
(* C13  Startup never rewrites an existing ledger.  In incremental mode    *)
(* startup writes the header exactly when the output file does not exist;  *)
(* a file that exists, whatever it holds (a header of this format, of the  *)
(* other format, nothing), is left as it is, and the rows of the run       *)
(* follow its content.                                                     *)
C13_StartupKeepsLedger ==
    (Processed /\ cfg.continuous_save) =>
        /\ started = (IF ledger0.exists
                      THEN ledger0
                      ELSE [exists |-> TRUE, rows |-> <<HeaderRow(cfg.format_type)>>])
        /\ IsPrefix(started.rows, ledger.rows)
        /\ FirstCells(SubSeq(ledger.rows, Len(started.rows) + 1, Len(ledger.rows)))
              = NamesOf(files_to_process, Len(log))

\* the file was there without content: the completed run has put its rows
\* into it and no header
C13_Witness ==
    /\ outcome = "done"
    /\ cfg.continuous_save
    /\ ledger0 = EmptyLedger
    /\ started = EmptyLedger
    /\ Len(ledger.rows) >= 2
    /\ \A i \in 1..Len(ledger.rows) : ~IsHeader(ledger.rows[i])

----------------------------------------------------------------------------
(* C11  Only a missing input path is fatal.  A run given a path that does  *)
(* not exist exits with code 1 with the ledger as it was and no file       *)
(* processed, and no other run does; no run ends in an uncaught failure,   *)
(* whatever fails while the ledger is read, a file is processed or a row   *)
(* is written: a run that is not killed goes through all its files.        *)
C11_OnlyMissingPathFatal ==
    /\ outcome = "exit1" =>
          /\ ~Exists(cfg.input_path)
          /\ ledger = ledger0
          /\ log = <<>>
    /\ (runs > 0 /\ ~Exists(cfg.input_path)) => outcome = "exit1"
    /\ outcome # "crashed"
    /\ outcome = "done" => Len(log) = Len(files_to_process)

====
